---- MODULE Spec2Model ----
(***************************************************************************)
(* The PieChart panel of lichtblick: the reducer that merges streamed      *)
(* message batches into the "latest matching queried data" under a         *)
(* user-editable message path, and the part of the component that feeds    *)
(* it (path layout effect, onRender) and reads it (rawValue).              *)
(***************************************************************************)
EXTENDS Integers, Sequences, FiniteSets, TLC

VARIABLES
  config,      \* the panel configuration (its path field)
  state,       \* the reducer state (type State)
  onRender,    \* TRUE once context.onRender is registered
  escaped,     \* the exception that left reducer() in the last dispatch
  raised,      \* the exception raised inside reducer() in the last dispatch
  prev,        \* the reducer state before the last dispatch
  lastAction,  \* the last dispatched action
  didSeek,     \* renderState.didSeek of the last onRender call
  subscriptions, \* the topics the host has subscribed for the panel
  hostCalls,   \* the subscription calls of the effects of the last commit
  unmounted    \* TRUE once the panel is torn down

vars == <<config, state, onRender, escaped, raised, prev, lastAction, didSeek,
          subscriptions, hostCalls, unmounted>>

(* Longest message batch of one frame. *)
MaxBatch == 2

----------------------------------------------------------------------------
(* JavaScript values *)

Undefined == [kind |-> "undefined"]

Float32Array(elems) == [kind |-> "Float32Array", elems |-> elems]

Array(items) == [kind |-> "Array", items |-> items]

Error(message) == [kind |-> "Error", message |-> message]

(* A message body that has a data field (Undefined: the field is absent). *)
Body(data) == [kind |-> "object", data |-> data]

MessageEvent(topic, message) == [kind |-> "MessageEvent", topic |-> topic, message |-> message]

(* Completion of a piece of code: a normal return or a thrown exception. *)
Normal(value) == [kind |-> "return", value |-> value]

Throw(err) == [kind |-> "throw", value |-> err]

Topics == {"/a", "/b"}

Payloads == {Float32Array(<<1, 1>>), Float32Array(<<2, 1, 1>>)}

(* The messages a frame can carry: bodies with a Float32Array data field,  *)
(* a body without data field, and a message whose body is undefined.       *)
Messages ==
  {MessageEvent("/a", Body(d)) : d \in Payloads}
    \cup {MessageEvent("/a", Body(Undefined)), MessageEvent("/a", Undefined)}
    \cup {MessageEvent("/b", Body(Float32Array(<<1, 1>>)))}

Batches == UNION {[1..n -> Messages] : n \in 0..MaxBatch}

----------------------------------------------------------------------------
(* Message paths *)

NamePart(name) == [type |-> "name", name |-> name]

(* value: the typeof of the filter's operand ("object" for a variable). *)
FilterPart(typeofValue) == [type |-> "filter", value |-> typeofValue]

(* start, end: the typeof of the slice's bounds ("object" for a variable). *)
SlicePart(typeofStart, typeofEnd) == [type |-> "slice", start |-> typeofStart, end |-> typeofEnd]

MessagePath(topicName, messagePath) ==
  [kind |-> "MessagePath", topicName |-> topicName, messagePath |-> messagePath]

(* A path text on which the parser raises instead of returning. *)
ParseThrows == "/a.data["

(* The path texts of the settings editor on which the parser returns. *)
Paths ==
  {"", "/a.data", "/b.data", "/a{id==1}.data[0:1]",
   "/a.data[:$n]", "/a.data[$n:]", "/b{id==$v}.data"}

(* The path parser: a parsed path, Undefined when the text does not parse, *)
(* or a raised ParseError.                                                 *)
parseMessagePath(path) ==
  CASE path = "/a.data" -> Normal(MessagePath("/a", <<NamePart("data")>>))
    [] path = "/b.data" -> Normal(MessagePath("/b", <<NamePart("data")>>))
    [] path = "/a{id==1}.data[0:1]" ->
         Normal(MessagePath("/a", <<FilterPart("number"), NamePart("data"),
                                    SlicePart("number", "number")>>))
    [] path = "/a.data[:$n]" ->
         Normal(MessagePath("/a", <<NamePart("data"), SlicePart("number", "object")>>))
    [] path = "/a.data[$n:]" ->
         Normal(MessagePath("/a", <<NamePart("data"), SlicePart("object", "number")>>))
    [] path = "/b{id==$v}.data" ->
         Normal(MessagePath("/b", <<FilterPart("object"), NamePart("data")>>))
    [] path = ParseThrows -> Throw(Error("ParseError"))
    [] OTHER -> Normal(Undefined)

(* The data items a path selects in a message, as an array; fails: the     *)
(* collaborator raises on this call.                                       *)
simpleGetMessagePathDataItems(message, filledInPath, fails) ==
  IF fails THEN Throw(Error("ExtractionError"))
  ELSE IF message.topic # filledInPath.topicName THEN Normal(Array(<<>>))
  ELSE IF message.message = Undefined THEN Normal(Array(<<>>))
  ELSE IF message.message.data = Undefined THEN Normal(Array(<<>>))
  ELSE Normal(Array(<<message.message.data>>))

----------------------------------------------------------------------------
(* reducer *)

(* Variant: the first message of the batch. *)
firstOf(messages) == IF messages = <<>> THEN Undefined ELSE messages[1]

(* _.last *)
last(messages) == IF messages = <<>> THEN Undefined ELSE messages[Len(messages)]

(* Variant: a slice is tested on its start only. *)
usesVariableStartOnly(part) ==
  \/ part.type = "filter" /\ part.value = "object"
  \/ part.type = "slice" /\ part.start = "object"

(* part => (filter with object value) or (slice with object start or end) *)
usesVariable(part) ==
  \/ part.type = "filter" /\ part.value = "object"
  \/ part.type = "slice" /\ (part.start = "object" \/ part.end = "object")

VariablesNotSupported ==
  [kind |-> "string", value |-> "Message paths using variables are not currently supported"]

(* The for loop of case "frame": the completion carries the two locals. *)
RECURSIVE frameLoop(_, _, _, _)
frameLoop(parsedPath, messages, latestMatchingQueriedData, latestMessage) ==
  IF messages = <<>>
  THEN Normal([latestMatchingQueriedData |-> latestMatchingQueriedData,
               latestMessage |-> latestMessage])
  ELSE LET message == Head(messages) IN
    IF message.topic # parsedPath.topicName
    THEN frameLoop(parsedPath, Tail(messages), latestMatchingQueriedData, latestMessage)
    ELSE IF message.message = Undefined
    THEN Throw(Error("TypeError"))
    ELSE LET data == message.message.data IN
      IF data # Undefined
      THEN frameLoop(parsedPath, Tail(messages), data, message)
      ELSE frameLoop(parsedPath, Tail(messages), latestMatchingQueriedData, latestMessage)

(* Variant: the two locals start undefined instead of from the state. *)
caseFrameFreshLocals(s, action) ==
  IF s.pathParseError # Undefined
  THEN Normal([s EXCEPT !.latestMessage = last(action.messages), !.error = Undefined])
  ELSE LET loop == IF s.parsedPath # Undefined
                   THEN frameLoop(s.parsedPath, action.messages, Undefined, Undefined)
                   ELSE Normal([latestMatchingQueriedData |-> Undefined,
                                latestMessage |-> Undefined])
       IN IF loop.kind = "throw" THEN loop
          ELSE Normal([s EXCEPT !.latestMessage = loop.value.latestMessage,
                                !.latestMatchingQueriedData = loop.value.latestMatchingQueriedData,
                                !.error = Undefined])

(* Variant: no early return on pathParseError. *)
caseFrameIgnoresParseError(s, action) ==
  LET loop == IF s.parsedPath # Undefined
              THEN frameLoop(s.parsedPath, action.messages,
                             s.latestMatchingQueriedData, s.latestMessage)
              ELSE Normal([latestMatchingQueriedData |-> s.latestMatchingQueriedData,
                           latestMessage |-> s.latestMessage])
  IN IF loop.kind = "throw" THEN loop
     ELSE Normal([s EXCEPT !.latestMessage = loop.value.latestMessage,
                           !.latestMatchingQueriedData = loop.value.latestMatchingQueriedData,
                           !.error = Undefined])

(* Variant: a frame without path parse error leaves the error as it was. *)
caseFrameKeepsError(s, action) ==
  IF s.pathParseError # Undefined
  THEN Normal([s EXCEPT !.latestMessage = last(action.messages), !.error = Undefined])
  ELSE LET loop == IF s.parsedPath # Undefined
                   THEN frameLoop(s.parsedPath, action.messages,
                                  s.latestMatchingQueriedData, s.latestMessage)
                   ELSE Normal([latestMatchingQueriedData |-> s.latestMatchingQueriedData,
                                latestMessage |-> s.latestMessage])
       IN IF loop.kind = "throw" THEN loop
          ELSE Normal([s EXCEPT !.latestMessage = loop.value.latestMessage,
                                !.latestMatchingQueriedData = loop.value.latestMatchingQueriedData])

caseFrame(s, action) ==
  IF s.pathParseError # Undefined
  THEN Normal([s EXCEPT !.latestMessage = last(action.messages), !.error = Undefined])
  ELSE LET loop == IF s.parsedPath # Undefined
                   THEN frameLoop(s.parsedPath, action.messages,
                                  s.latestMatchingQueriedData, s.latestMessage)
                   ELSE Normal([latestMatchingQueriedData |-> s.latestMatchingQueriedData,
                                latestMessage |-> s.latestMessage])
       IN IF loop.kind = "throw" THEN loop
          ELSE Normal([s EXCEPT !.latestMessage = loop.value.latestMessage,
                                !.latestMatchingQueriedData = loop.value.latestMatchingQueriedData,
                                !.error = Undefined])

(* Variant: without an extraction the previous value is kept. *)
casePathKeepsValue(s, action, fails) ==
  LET parsed == parseMessagePath(action.path) IN
  IF parsed.kind = "throw" THEN parsed
  ELSE
    LET newPath == parsed.value
        pathParseError ==
          IF newPath # Undefined
             /\ \E i \in 1..Len(newPath.messagePath) : usesVariable(newPath.messagePath[i])
          THEN VariablesNotSupported ELSE Undefined
        items ==
          IF newPath # Undefined /\ pathParseError = Undefined /\ s.latestMessage # Undefined
          THEN simpleGetMessagePathDataItems(s.latestMessage, newPath, fails)
          ELSE Normal(s.latestMatchingQueriedData)
    IN Normal([s EXCEPT !.path = action.path,
                        !.parsedPath = newPath,
                        !.latestMatchingQueriedData =
                            IF items.kind = "throw" THEN Undefined ELSE items.value,
                        !.error = IF items.kind = "throw" THEN items.value ELSE Undefined,
                        !.pathParseError = pathParseError])

(* Variant: a text that does not parse is reported as a path parse error. *)
casePathFlagsUnparsed(s, action, fails) ==
  LET parsed == parseMessagePath(action.path) IN
  IF parsed.kind = "throw" THEN parsed
  ELSE
    LET newPath == parsed.value
        pathParseError ==
          IF newPath = Undefined
             \/ \E i \in 1..Len(newPath.messagePath) : usesVariable(newPath.messagePath[i])
          THEN VariablesNotSupported ELSE Undefined
        items ==
          IF newPath # Undefined /\ pathParseError = Undefined /\ s.latestMessage # Undefined
          THEN simpleGetMessagePathDataItems(s.latestMessage, newPath, fails)
          ELSE Normal(Undefined)
    IN Normal([s EXCEPT !.path = action.path,
                        !.parsedPath = newPath,
                        !.latestMatchingQueriedData =
                            IF items.kind = "throw" THEN Undefined ELSE items.value,
                        !.error = IF items.kind = "throw" THEN items.value ELSE Undefined,
                        !.pathParseError = pathParseError])

(* Variant: no try/catch around the extraction. *)
casePathNoInnerCatch(s, action, fails) ==
  LET parsed == parseMessagePath(action.path) IN
  IF parsed.kind = "throw" THEN parsed
  ELSE
    LET newPath == parsed.value
        pathParseError ==
          IF newPath # Undefined
             /\ \E i \in 1..Len(newPath.messagePath) : usesVariable(newPath.messagePath[i])
          THEN VariablesNotSupported ELSE Undefined
        items ==
          IF newPath # Undefined /\ pathParseError = Undefined /\ s.latestMessage # Undefined
          THEN simpleGetMessagePathDataItems(s.latestMessage, newPath, fails)
          ELSE Normal(Undefined)
    IN IF items.kind = "throw" THEN items
       ELSE Normal([s EXCEPT !.path = action.path,
                             !.parsedPath = newPath,
                             !.latestMatchingQueriedData = items.value,
                             !.error = Undefined,
                             !.pathParseError = pathParseError])

(* Variant: a text that does not parse keeps the parsed path of before. *)
casePathKeepsParsedPath(s, action, fails) ==
  LET parsed == parseMessagePath(action.path) IN
  IF parsed.kind = "throw" THEN parsed
  ELSE
    LET newPath == parsed.value
        pathParseError ==
          IF newPath # Undefined
             /\ \E i \in 1..Len(newPath.messagePath) : usesVariable(newPath.messagePath[i])
          THEN VariablesNotSupported ELSE Undefined
        items ==
          IF newPath # Undefined /\ pathParseError = Undefined /\ s.latestMessage # Undefined
          THEN simpleGetMessagePathDataItems(s.latestMessage, newPath, fails)
          ELSE Normal(Undefined)
    IN Normal([s EXCEPT !.path = action.path,
                        !.parsedPath = IF newPath = Undefined THEN s.parsedPath ELSE newPath,
                        !.latestMatchingQueriedData =
                            IF items.kind = "throw" THEN Undefined ELSE items.value,
                        !.error = IF items.kind = "throw" THEN items.value ELSE Undefined,
                        !.pathParseError = pathParseError])

casePath(s, action, fails) ==
  LET parsed == parseMessagePath(action.path) IN
  IF parsed.kind = "throw" THEN parsed
  ELSE
    LET newPath == parsed.value
        pathParseError ==
          IF newPath # Undefined
             /\ \E i \in 1..Len(newPath.messagePath) : usesVariable(newPath.messagePath[i])
          THEN VariablesNotSupported ELSE Undefined
        items ==
          IF newPath # Undefined /\ pathParseError = Undefined /\ s.latestMessage # Undefined
          THEN simpleGetMessagePathDataItems(s.latestMessage, newPath, fails)
          ELSE Normal(Undefined)
    IN Normal([s EXCEPT !.path = action.path,
                        !.parsedPath = newPath,
                        !.latestMatchingQueriedData =
                            IF items.kind = "throw" THEN Undefined ELSE items.value,
                        !.error = IF items.kind = "throw" THEN items.value ELSE Undefined,
                        !.pathParseError = pathParseError])

(* Variant: the error survives a seek. *)
caseSeekKeepsError(s) ==
  Normal([s EXCEPT !.latestMessage = Undefined,
                   !.latestMatchingQueriedData = Undefined])

(* Variant: the queried data survives a seek. *)
caseSeekKeepsValue(s) ==
  Normal([s EXCEPT !.latestMessage = Undefined,
                   !.error = Undefined])

caseSeek(s) ==
  Normal([s EXCEPT !.latestMessage = Undefined,
                   !.latestMatchingQueriedData = Undefined,
                   !.error = Undefined])

(* The switch inside the try block. *)
reducerBody(s, action, fails) ==
  CASE action.type = "frame" -> caseFrame(s, action)
    [] action.type = "path" -> casePath(s, action, fails)
    [] action.type = "seek" -> caseSeek(s)

(* Variant: no try/catch around the switch. *)
reducerNoCatch(s, action, fails) == reducerBody(s, action, fails)

(* Variant: the catch clause keeps the queried data. *)
reducerCatchKeepsData(s, action, fails) ==
  LET body == reducerBody(s, action, fails) IN
  IF body.kind = "throw"
  THEN Normal([s EXCEPT !.error = body.value])
  ELSE body

(* try { switch } catch (error) { ... } *)
reducer(s, action, fails) ==
  LET body == reducerBody(s, action, fails) IN
  IF body.kind = "throw"
  THEN Normal([s EXCEPT !.latestMatchingQueriedData = Undefined, !.error = body.value])
  ELSE body

(* The exception raised inside one run of reducer, caught or not. *)
raisedIn(s, action, fails) ==
  LET body == reducerBody(s, action, fails) IN
  IF body.kind = "throw" THEN body.value
  ELSE IF action.type = "path" /\ body.value.error # Undefined THEN body.value.error
  ELSE Undefined

----------------------------------------------------------------------------
(* JavaScript numbers between 0 and 1 *)

(* Significant bits of an IEEE-754 double. *)
Precision == 53

NaN == [kind |-> "NaN"]

(* The double int + 0.b1 b2 ... (binary), bits without trailing zeros. *)
Double(int, bits) == [kind |-> "number", int |-> int, bits |-> bits]

Zero == Double(0, <<>>)

One == Double(1, <<>>)

RECURSIVE stripZeros(_)
stripZeros(bits) ==
  IF bits = <<>> \/ bits[Len(bits)] = 1 THEN bits
  ELSE stripZeros(SubSeq(bits, 1, Len(bits) - 1))

RECURSIVE leadingZeros(_)
leadingZeros(bits) ==
  IF bits = <<>> \/ bits[1] = 1 THEN 0 ELSE 1 + leadingZeros(Tail(bits))

(* bits plus one unit in the last place; carry: the sum reached 1. *)
RECURSIVE increment(_)
increment(bits) ==
  IF bits = <<>> THEN [carry |-> 1, bits |-> <<>>]
  ELSE IF bits[Len(bits)] = 0
  THEN [carry |-> 0, bits |-> SubSeq(bits, 1, Len(bits) - 1) \o <<1>>]
  ELSE LET rest == increment(SubSeq(bits, 1, Len(bits) - 1))
       IN [carry |-> rest.carry, bits |-> rest.bits \o <<0>>]

(* The double nearest to 0.bits, ties to even. *)
roundBits(bits) ==
  LET keep == leadingZeros(bits) + Precision IN
  IF Len(bits) <= keep THEN Double(0, stripZeros(bits))
  ELSE LET kept == SubSeq(bits, 1, keep)
           guard == bits[keep + 1]
           sticky == \E j \in (keep + 2)..Len(bits) : bits[j] = 1
           up == guard = 1 /\ (sticky \/ kept[keep] = 1)
           sum == increment(kept)
       IN IF ~up THEN Double(0, stripZeros(kept))
          ELSE IF sum.carry = 1 THEN One
          ELSE Double(0, stripZeros(sum.bits))

(* The binary digits of r / d (r < d) up to the guard bit, then a sticky   *)
(* bit when the division is not exact.                                     *)
RECURSIVE quotientBits(_, _, _, _)
quotientBits(r, d, bits, significant) ==
  IF r = 0 THEN bits
  ELSE IF significant = Precision + 1 THEN bits \o <<1>>
  ELSE LET bit == IF 2 * r >= d THEN 1 ELSE 0
       IN quotientBits(2 * r - bit * d, d, bits \o <<bit>>,
                       IF significant > 0 \/ bit = 1 THEN significant + 1 ELSE 0)

(* n / d for integers 0 <= n <= d *)
divide(n, d) ==
  IF d = 0 THEN NaN
  ELSE IF n = d THEN One
  ELSE roundBits(quotientBits(n, d, <<>>, 0))

(* 1 - x for a double x between 0 and 1 *)
oneMinus(x) ==
  IF x = NaN THEN NaN
  ELSE IF x.int = 1 THEN Zero
  ELSE IF x.bits = <<>> THEN One
  ELSE roundBits([i \in 1..Len(x.bits) |->
                    IF i < Len(x.bits) THEN 1 - x.bits[i] ELSE 1])

(* x <= y for doubles between 0 and 1 *)
RECURSIVE bitsLeq(_, _)
bitsLeq(a, b) ==
  IF a = <<>> THEN TRUE
  ELSE IF b = <<>> THEN FALSE
  ELSE IF a[1] # b[1] THEN a[1] < b[1]
  ELSE bitsLeq(Tail(a), Tail(b))

leq(x, y) == x.int < y.int \/ (x.int = y.int /\ bitsLeq(x.bits, y.bits))

----------------------------------------------------------------------------
(* getConicGradient: the colour stops of a configuration *)

Color(css) == [kind |-> "css", value |-> css]

(* The turbo colour ramp, a lookup by the position t. *)
turboColorString(t) == [kind |-> "turbo", t |-> t]

ColorStop(color, location) == [color |-> color, location |-> location]

numStops == 20

defaultConfig ==
  [path |-> "",
   minValue |-> 0,
   maxValue |-> 1,
   colorMap |-> "red-yellow-green",
   colorMode |-> "colormap",
   gradient |-> <<"#0000ff", "#ff00ff">>,
   reverse |-> FALSE]

(* The switch on colorMode and colorMap. *)
selectStops(c) ==
  IF c.colorMode = "gradient"
  THEN <<ColorStop(Color(c.gradient[1]), Zero), ColorStop(Color(c.gradient[2]), One)>>
  ELSE CASE c.colorMap = "red-yellow-green" ->
              <<ColorStop(Color("#f00"), Zero),
                ColorStop(Color("#ff0"), divide(1, 2)),
                ColorStop(Color("#0c0"), One)>>
         [] c.colorMap = "rainbow" ->
              <<ColorStop(Color("#f0f"), Zero),
                ColorStop(Color("#00f"), divide(1, 5)),
                ColorStop(Color("#0ff"), divide(2, 5)),
                ColorStop(Color("#0f0"), divide(3, 5)),
                ColorStop(Color("#ff0"), divide(4, 5)),
                ColorStop(Color("#f00"), divide(5, 5))>>
         [] c.colorMap = "turbo" ->
              [i \in 1..numStops |->
                 ColorStop(turboColorString(divide(i - 1, numStops - 1)),
                           divide(i - 1, numStops - 1))]

(* Variant: the locations are mirrored, the order is kept. *)
reverseStopsKeepsOrder(stops) ==
  [i \in 1..Len(stops) |-> ColorStop(stops[i].color, oneMinus(stops[i].location))]

(* Variant: the order is reversed, the locations are kept. *)
reverseStopsKeepsLocations(stops) ==
  [i \in 1..Len(stops) |-> stops[Len(stops) + 1 - i]]

(* Variant: the reversal loses the stop that becomes the last one. *)
reverseStopsDropsLast(stops) ==
  [i \in 1..(Len(stops) - 1) |->
     ColorStop(stops[Len(stops) + 1 - i].color,
               oneMinus(stops[Len(stops) + 1 - i].location))]

(* .map(stop => ({color, location: 1 - location})).reverse() *)
reverseStops(stops) ==
  [i \in 1..Len(stops) |->
     ColorStop(stops[Len(stops) + 1 - i].color,
               oneMinus(stops[Len(stops) + 1 - i].location))]

(* colorStops of getConicGradient *)
colorStops(c) == IF c.reverse THEN reverseStops(selectStops(c)) ELSE selectStops(c)

----------------------------------------------------------------------------
(* Angles and percentages: exact fractions (angles in units of pi) *)

RECURSIVE gcd(_, _)
gcd(a, b) == IF b = 0 THEN a ELSE gcd(b, a % b)

abs(a) == IF a < 0 THEN -a ELSE a

(* num / den in lowest terms; 0 / 0 is NaN. *)
Fraction(num, den) ==
  IF den = 0 THEN NaN
  ELSE LET g == gcd(abs(num), abs(den))
           sign == IF den < 0 THEN -1 ELSE 1
       IN [kind |-> "fraction", num |-> sign * (num \div g), den |-> sign * (den \div g)]

plus(x, y) ==
  IF x = NaN \/ y = NaN THEN NaN
  ELSE Fraction(x.num * y.den + y.num * x.den, x.den * y.den)

minus(x, y) ==
  IF x = NaN \/ y = NaN THEN NaN
  ELSE Fraction(x.num * y.den - y.num * x.den, x.den * y.den)

times(x, y) ==
  IF x = NaN \/ y = NaN THEN NaN
  ELSE Fraction(x.num * y.num, x.den * y.den)

over(x, y) ==
  IF x = NaN \/ y = NaN THEN NaN
  ELSE Fraction(x.num * y.den, x.den * y.num)

PI == Fraction(1, 1)

pieChartAngle == over(minus(Fraction(0, 1), PI), Fraction(8, 1))

(* The angle the clip path's arcs span: from the left end point over the   *)
(* top to the right end point.                                             *)
annulusSweep == minus(PI, times(Fraction(2, 1), pieChartAngle))

----------------------------------------------------------------------------
(* The component *)

(* useReducer's initializer *)
initialState(path) ==
  [path |-> path,
   parsedPath |-> parseMessagePath(path).value,
   latestMessage |-> Undefined,
   latestMatchingQueriedData |-> Undefined,
   pathParseError |-> Undefined,
   error |-> Undefined]

rawValue(s) ==
  IF s.latestMatchingQueriedData.kind = "Float32Array"
  THEN s.latestMatchingQueriedData.elems ELSE <<>>

(* The render branch: the chart, or the "No data available" placeholder. *)
rendersChart(s) == Len(rawValue(s)) > 0

RECURSIVE sum(_)
sum(values) == IF values = <<>> THEN 0 ELSE Head(values) + sum(Tail(values))

(* total and percentages of the render *)
percentages(values) ==
  [i \in 1..Len(values) |->
     times(Fraction(values[i], sum(values)), Fraction(100, 1))]

(* Variant: one weight is coloured with position 0. *)
dataColorStopsGuarded(values) ==
  [i \in 1..Len(values) |->
     [color |-> turboColorString(IF Len(values) > 1 THEN divide(i - 1, Len(values) - 1)
                                 ELSE Zero),
      percentage |-> percentages(values)[i]]]

(* colorStops of the render: a turbo colour by index for every percentage *)
dataColorStops(values) ==
  [i \in 1..Len(values) |->
     [color |-> turboColorString(divide(i - 1, Len(values) - 1)),
      percentage |-> percentages(values)[i]]]

(* The segments of getConicGradientWithData from the one that starts at    *)
(* angleStart.                                                             *)
RECURSIVE segmentsFrom(_, _)
segmentsFrom(stops, angleStart) ==
  IF stops = <<>> THEN <<>>
  ELSE LET angleEnd == plus(angleStart,
                            times(over(Head(stops).percentage, Fraction(100, 1)),
                                  times(Fraction(2, 1), PI)))
       IN <<[color |-> Head(stops).color, angleStart |-> angleStart, angleEnd |-> angleEnd]>>
            \o segmentsFrom(Tail(stops), angleEnd)

getConicGradientWithData(stops) ==
  segmentsFrom(stops, over(minus(Fraction(0, 1), PI), Fraction(2, 1)))

Placeholder == [kind |-> "placeholder", segments |-> <<>>]

(* Variant: the chart is rendered for a vector of any length. *)
PieChartAnyLength(c, s) ==
  IF Len(rawValue(s)) >= 0
  THEN [kind |-> "chart", segments |-> getConicGradientWithData(dataColorStops(rawValue(s)))]
  ELSE Placeholder

(* What the component returns for a configuration and a reducer state. *)
PieChart(c, s) ==
  IF Len(rawValue(s)) > 0
  THEN [kind |-> "chart", segments |-> getConicGradientWithData(dataColorStops(rawValue(s)))]
  ELSE Placeholder

(* One dispatch, applied to the reducer state s. *)
dispatchFrom(s, action, fails) ==
  LET run == reducer(s, action, fails) IN
  /\ state' = (IF run.kind = "throw" THEN s ELSE run.value)
  /\ escaped' = (IF run.kind = "throw" THEN run.value ELSE Undefined)
  /\ raised' = raisedIn(s, action, fails)
  /\ prev' = s
  /\ lastAction' = action

dispatch(action, fails) == dispatchFrom(state, action, fails)

(* Variant: a render state with a frame dispatches the frame only. *)
onRenderFrameOnly(seeked, currentFrame) ==
  IF currentFrame # Undefined
  THEN <<[type |-> "frame", messages |-> currentFrame.items]>>
  ELSE IF seeked THEN <<[type |-> "seek"]>> ELSE <<>>

(* The actions context.onRender dispatches for one render state, in order. *)
(* currentFrame: Undefined or the Array of the frame's messages.           *)
onRenderDispatches(seeked, currentFrame) ==
  (IF seeked THEN <<[type |-> "seek"]>> ELSE <<>>)
    \o (IF currentFrame # Undefined
        THEN <<[type |-> "frame", messages |-> currentFrame.items]>>
        ELSE <<>>)

(* One call of context.onRender: its dispatches are reduced in order. *)
renderTick(seeked, currentFrame) ==
  LET actions == onRenderDispatches(seeked, currentFrame)
      first == reducer(state, actions[1], FALSE)
  IN /\ Len(actions) >= 1
     /\ IF Len(actions) = 1 \/ first.kind = "throw"
        THEN dispatchFrom(state, actions[1], FALSE)
        ELSE dispatchFrom(first.value, actions[2], FALSE)
     /\ didSeek' = seeked

(* state.parsedPath?.topicName, as the set of the topics it names *)
topicsOf(s) == IF s.parsedPath = Undefined THEN {} ELSE {s.parsedPath.topicName}

subscribe(topics) == [call |-> "subscribe", topics |-> topics]

unsubscribeAll == [call |-> "unsubscribeAll", topics |-> {}]

(* The host's subscription set after a list of calls. *)
RECURSIVE applyCalls(_, _)
applyCalls(subscribed, calls) ==
  IF calls = <<>> THEN subscribed
  ELSE applyCalls(IF Head(calls).call = "unsubscribeAll" THEN {}
                  ELSE subscribed \cup Head(calls).topics,
                  Tail(calls))

(* Variant: the effect has no cleanup. *)
subscribeEffectNoCleanup(firstCommit) ==
  LET calls == IF ~firstCommit /\ topicsOf(state') = topicsOf(state) THEN <<>>
               ELSE IF topicsOf(state') # {} THEN <<subscribe(topicsOf(state'))>>
               ELSE <<>>
  IN /\ hostCalls' = calls
     /\ subscriptions' = applyCalls(subscriptions, calls)

(* The subscribe effect of a commit that takes state to state': it runs on *)
(* the first commit and when the topic name changed, after the cleanup of  *)
(* the effect of before.                                                   *)
subscribeEffect(firstCommit) ==
  LET cleanup == IF firstCommit THEN <<>> ELSE <<unsubscribeAll>>
      calls == IF ~firstCommit /\ topicsOf(state') = topicsOf(state) THEN <<>>
               ELSE cleanup \o (IF topicsOf(state') # {}
                                THEN <<subscribe(topicsOf(state'))>> ELSE <<>>)
  IN /\ hostCalls' = calls
     /\ subscriptions' = applyCalls(subscriptions, calls)

(* The component after construction with one of the configurations. *)
InitOf(configs) ==
  /\ config \in configs
  /\ state = initialState(config.path)
  /\ onRender = FALSE
  /\ escaped = Undefined
  /\ raised = Undefined
  /\ prev = state
  /\ lastAction = [type |-> "init"]
  /\ didSeek = FALSE
  /\ subscriptions = {}
  /\ hostCalls = <<>>
  /\ unmounted = FALSE

(* The default configuration with a persisted path. *)
Init == InitOf({[defaultConfig EXCEPT !.path = p] : p \in Paths})

(* First commit: the path layout effect dispatches the configured path,    *)
(* then the effects register onRender.                                      *)
Mount ==
  /\ ~onRender
  /\ ~unmounted
  /\ dispatch([type |-> "path", path |-> config.path], FALSE)
  /\ subscribeEffect(TRUE)
  /\ onRender' = TRUE
  /\ UNCHANGED <<config, didSeek, unmounted>>

(* A settings action changes config.path; the layout effect dispatches it. *)
(* paths: the texts the user can enter; failures: whether the extraction   *)
(* collaborator can raise.                                                 *)
SetPath(paths, failures) ==
  /\ onRender
  /\ \E p \in paths \ {config.path}, fails \in failures :
       /\ config' = [config EXCEPT !.path = p]
       /\ dispatch([type |-> "path", path |-> p], fails)
  /\ subscribeEffect(FALSE)
  /\ UNCHANGED <<onRender, didSeek, unmounted>>

(* onRender with a currentFrame out of batches and no seek *)
ApplyFrameOf(batches) ==
  /\ onRender
  /\ \E messages \in batches : renderTick(FALSE, Array(messages))
  /\ subscribeEffect(FALSE)
  /\ UNCHANGED <<config, onRender, unmounted>>

ApplyFrame == ApplyFrameOf(Batches)

(* onRender with didSeek and no currentFrame *)
Seek ==
  /\ onRender
  /\ renderTick(TRUE, Undefined)
  /\ subscribeEffect(FALSE)
  /\ UNCHANGED <<config, onRender, unmounted>>

(* onRender with didSeek and a currentFrame out of batches *)
SeekFrameOf(batches) ==
  /\ onRender
  /\ \E messages \in batches : renderTick(TRUE, Array(messages))
  /\ subscribeEffect(FALSE)
  /\ UNCHANGED <<config, onRender, unmounted>>

SeekFrame == SeekFrameOf(Batches)

(* Teardown: the cleanups of the effects run, unsubscribeAll and           *)
(* context.onRender = undefined.                                           *)
Unmount ==
  /\ onRender
  /\ hostCalls' = <<unsubscribeAll>>
  /\ subscriptions' = applyCalls(subscriptions, <<unsubscribeAll>>)
  /\ onRender' = FALSE
  /\ unmounted' = TRUE
  /\ UNCHANGED <<config, state, escaped, raised, prev, lastAction, didSeek>>

(* The panel with collaborators that return. *)
Next == Mount \/ SetPath(Paths, {FALSE}) \/ ApplyFrame \/ Seek \/ SeekFrame

Spec == Init /\ [][Next]_vars

(* The panel with a parser and an extraction that can raise. *)
NextFaulty ==
  Mount \/ SetPath(Paths \cup {ParseThrows}, BOOLEAN) \/ ApplyFrame \/ Seek \/ SeekFrame

SpecFaulty == Init /\ [][NextFaulty]_vars

(* Longest weight vector and largest weight of a message. *)
MaxLen == 4

MaxWeight == 1

Weights == UNION {[1..n -> 0..MaxWeight] : n \in 0..MaxLen}

(* Frames of one message on /a that carries a weight vector. *)
WeightBatches == {<<MessageEvent("/a", Body(Float32Array(w)))>> : w \in Weights}

(* The panel fed with weight vectors. *)
NextView ==
  \/ Mount
  \/ SetPath({"/a.data", "/a{id==1}.data[0:1]"}, {FALSE})
  \/ ApplyFrameOf(WeightBatches)
  \/ Seek

SpecView == Init /\ [][NextView]_vars

GradientColors == {"#0000ff", "#ff00ff", "#00ff00"}

(* The configurations a persisted panel state can hold. *)
ColorConfigs ==
  {[defaultConfig EXCEPT !.path = p, !.colorMode = mode, !.colorMap = map,
                         !.gradient = <<a, b>>, !.reverse = r] :
     p \in {"", "/a.data"}, mode \in {"colormap", "gradient"},
     map \in {"red-yellow-green", "rainbow", "turbo"},
     a \in GradientColors, b \in GradientColors, r \in BOOLEAN}

(* The panel constructed from any persisted colour configuration. *)
NextColor == Mount \/ Seek

InitColor == InitOf(ColorConfigs)

SpecColor == InitColor /\ [][NextColor]_vars

(* The panel from its first commit to its teardown, fed one message a     *)
(* frame.                                                                  *)
NextLifecycle ==
  \/ Mount
  \/ SetPath(Paths \cup {ParseThrows}, {FALSE})
  \/ ApplyFrameOf({<<m>> : m \in Messages})
  \/ Seek
  \/ Unmount

SpecLifecycle == Init /\ [][NextLifecycle]_vars

----------------------------------------------------------------------------
(* Properties *)

(* A message of which case "frame" takes the data. *)
extracts(message) == message.message # Undefined /\ message.message.data # Undefined

(* The messages of a batch on the topic that extract, in batch order. *)
extracted(messages, topicName) ==
  SelectSeq(messages, LAMBDA m : m.topic = topicName /\ extracts(m))

(* A batch holds a message on the topic whose extraction raises. *)
hasFailing(messages, topicName) ==
  \E i \in 1..Len(messages) :
    messages[i].topic = topicName /\ messages[i].message = Undefined

(* A frame dispatched with a bound topic and no path parse error. *)
boundFrame ==
  /\ lastAction.type = "frame"
  /\ prev.pathParseError = Undefined
  /\ prev.parsedPath # Undefined

(* C1: after a seek, latestMessage, latestMatchingQueriedData and error    *)
(* are undefined, whatever the state before.                               *)
C1_SeekResets ==
  lastAction.type = "seek" =>
    /\ state.latestMessage = Undefined
    /\ state.latestMatchingQueriedData = Undefined
    /\ state.error = Undefined

C1_Witness ==
  /\ lastAction.type = "seek"
  /\ prev.latestMessage # Undefined
  /\ \/ prev.latestMatchingQueriedData # Undefined
     \/ prev.error # Undefined /\ prev.pathParseError # Undefined

(* C2: latestMatchingQueriedData is defined only while pathParseError is   *)
(* undefined, in every reachable state.                                    *)
C2_ValueOnlyWithoutParseError ==
  state.latestMatchingQueriedData # Undefined => state.pathParseError = Undefined

C2_Witness ==
  /\ lastAction.type = "path"
  /\ prev.latestMatchingQueriedData # Undefined
  /\ state.pathParseError # Undefined

(* C3: dispatching a path with a variable in a filter or slice sets        *)
(* pathParseError and leaves latestMatchingQueriedData undefined.          *)
C3_VariablePathRejected ==
  (lastAction.type = "path"
     /\ lastAction.path \in {"/a.data[:$n]", "/a.data[$n:]", "/b{id==$v}.data"}) =>
    /\ state.pathParseError # Undefined
    /\ state.latestMatchingQueriedData = Undefined

C3_Witness ==
  /\ lastAction.type = "path"
  /\ lastAction.path = "/a.data[:$n]"
  /\ prev.latestMessage # Undefined
  /\ prev.latestMatchingQueriedData # Undefined
  /\ state.pathParseError # Undefined

(* C4: a frame with an empty batch leaves latestMatchingQueriedData as it  *)
(* was.                                                                    *)
C4_EmptyFrameKeepsValue ==
  (lastAction.type = "frame" /\ lastAction.messages = <<>>) =>
    state.latestMatchingQueriedData = prev.latestMatchingQueriedData

C4_Witness ==
  /\ lastAction.type = "frame"
  /\ lastAction.messages = <<>>
  /\ prev.latestMatchingQueriedData # Undefined

(* C5: without a path parse error, when messages of the batch are on the   *)
(* bound topic and extract, latestMessage is the last of them and          *)
(* latestMatchingQueriedData is its data.                                  *)
C5_LastMatchWins ==
  boundFrame =>
    LET ok == extracted(lastAction.messages, prev.parsedPath.topicName) IN
    Len(ok) >= 1 =>
      /\ state.latestMessage = ok[Len(ok)]
      /\ state.latestMatchingQueriedData = ok[Len(ok)].message.data

(* C6: no exception leaves the reducer, and an exception raised inside it  *)
(* is the error of the returned state.                                     *)
C6_ReducerTotal ==
  /\ escaped = Undefined
  /\ raised # Undefined => state.error = raised

C6_Witness ==
  /\ lastAction.type = "frame"
  /\ raised = Error("TypeError")
  /\ state.error = Error("TypeError")

(* C7: a message of the bound topic whose extraction raises does not stop  *)
(* the batch: the messages of the bound topic that extract still decide    *)
(* latestMessage and latestMatchingQueriedData.                            *)
C7_FailureDoesNotAbortBatch ==
  (boundFrame /\ hasFailing(lastAction.messages, prev.parsedPath.topicName)) =>
    LET ok == extracted(lastAction.messages, prev.parsedPath.topicName) IN
    IF Len(ok) >= 1
    THEN /\ state.latestMessage = ok[Len(ok)]
         /\ state.latestMatchingQueriedData = ok[Len(ok)].message.data
    ELSE /\ state.latestMessage = prev.latestMessage
         /\ state.latestMatchingQueriedData = prev.latestMatchingQueriedData

(* C8 as stated: a frame dispatched while pathParseError or error is set   *)
(* leaves latestMatchingQueriedData as it was.                             *)
C8_Original ==
  (lastAction.type = "frame"
     /\ (prev.pathParseError # Undefined \/ prev.error # Undefined)) =>
    state.latestMatchingQueriedData = prev.latestMatchingQueriedData

(* C8 amended: a frame dispatched while pathParseError is set leaves       *)
(* latestMatchingQueriedData as it was, for every batch; a frame           *)
(* dispatched while only error is set extracts as usual and, unless it     *)
(* raises itself, clears error.                                            *)
C8_FrameUnderParseError ==
  /\ (lastAction.type = "frame" /\ prev.pathParseError # Undefined) =>
       state.latestMatchingQueriedData = prev.latestMatchingQueriedData
  /\ (boundFrame /\ prev.error # Undefined /\ raised = Undefined) =>
       /\ state.error = Undefined
       /\ LET ok == extracted(lastAction.messages, prev.parsedPath.topicName) IN
          Len(ok) >= 1 => state.latestMatchingQueriedData = ok[Len(ok)].message.data

C8_Witness ==
  /\ lastAction.type = "frame"
  /\ prev.pathParseError # Undefined
  /\ prev.parsedPath # Undefined
  /\ Len(extracted(lastAction.messages, prev.parsedPath.topicName)) >= 1

(* C9 as stated: a path or frame dispatch that leaves pathParseError or    *)
(* error set keeps the chart that was rendered before it.                  *)
C9_Original ==
  (lastAction.type \in {"path", "frame"}
     /\ (state.pathParseError # Undefined \/ state.error # Undefined)
     /\ rendersChart(prev)) =>
    /\ rendersChart(state)
    /\ rawValue(state) = rawValue(prev)

(* C9 amended: whenever pathParseError or error is set, the queried data   *)
(* is undefined and the panel renders the placeholder, not a chart.        *)
C9_ErrorBlanksChart ==
  (state.pathParseError # Undefined \/ state.error # Undefined) =>
    /\ state.latestMatchingQueriedData = Undefined
    /\ ~rendersChart(state)

C9_Witness ==
  /\ lastAction.type = "frame"
  /\ rendersChart(prev)
  /\ state.error # Undefined
  /\ ~rendersChart(state)

(* C10 as stated: dispatching a path that the parser cannot parse sets     *)
(* pathParseError and clears latestMatchingQueriedData.                    *)
C10_Original ==
  (lastAction.type = "path" /\ parseMessagePath(lastAction.path) = Normal(Undefined)) =>
    /\ state.pathParseError # Undefined
    /\ state.latestMatchingQueriedData = Undefined

(* C10 amended: dispatching a path that the parser cannot parse clears     *)
(* latestMatchingQueriedData, parsedPath and pathParseError.               *)
C10_UnparsedPathClears ==
  (lastAction.type = "path" /\ parseMessagePath(lastAction.path) = Normal(Undefined)) =>
    /\ state.pathParseError = Undefined
    /\ state.parsedPath = Undefined
    /\ state.latestMatchingQueriedData = Undefined

C10_Witness ==
  /\ lastAction.type = "path"
  /\ parseMessagePath(lastAction.path) = Normal(Undefined)
  /\ state.path = lastAction.path
  /\ prev.latestMatchingQueriedData # Undefined

(* C11: dispatching a path without parse error while a message is held    *)
(* gives the latestMatchingQueriedData that a frame of just that message   *)
(* gives under the new path, so the chart is rendered from it at once.     *)
C11_PathReextractsLikeFrame ==
  (/\ lastAction.type = "path"
   /\ raised = Undefined
   /\ state.path = lastAction.path
   /\ state.parsedPath # Undefined
   /\ state.pathParseError = Undefined
   /\ prev.latestMessage # Undefined
   /\ prev.latestMessage.topic = state.parsedPath.topicName
   /\ extracts(prev.latestMessage)) =>
    LET frame == [type |-> "frame", messages |-> <<prev.latestMessage>>]
        seeked == caseSeek(state).value
    IN /\ state.latestMatchingQueriedData =
            reducer(seeked, frame, FALSE).value.latestMatchingQueriedData
       /\ rendersChart(state) = rendersChart(reducer(seeked, frame, FALSE).value)

(* C12: in a render with a seek and a frame the seek is reduced first, so  *)
(* the frame starts from a reset state and latestMessage and               *)
(* latestMatchingQueriedData end undefined or taken from that frame; a     *)
(* render with a seek only ends with both undefined.                       *)
C12_SeekBeforeFrame ==
  /\ (didSeek /\ lastAction.type = "frame") =>
       /\ prev.latestMessage = Undefined
       /\ prev.latestMatchingQueriedData = Undefined
       /\ \/ state.latestMessage = Undefined
          \/ \E i \in 1..Len(lastAction.messages) :
               state.latestMessage = lastAction.messages[i]
       /\ \/ state.latestMatchingQueriedData = Undefined
          \/ \E i \in 1..Len(lastAction.messages) :
               /\ extracts(lastAction.messages[i])
               /\ state.latestMatchingQueriedData = lastAction.messages[i].message.data
  /\ (didSeek /\ lastAction.type = "seek") =>
       /\ state.latestMessage = Undefined
       /\ state.latestMatchingQueriedData = Undefined

C12_Witness ==
  /\ didSeek
  /\ lastAction.type = "frame"
  /\ Len(lastAction.messages) = 2
  /\ state.latestMessage = lastAction.messages[2]
  /\ state.latestMatchingQueriedData = Float32Array(<<2, 1, 1>>)


(* Helpers of the geometry and colour properties *)
segments == PieChart(config, state).segments

width(segment) == minus(segment.angleEnd, segment.angleStart)

RECURSIVE totalWidth(_)
totalWidth(segs) ==
  IF segs = <<>> THEN Fraction(0, 1) ELSE plus(width(Head(segs)), totalWidth(Tail(segs)))

hasNaN(segs) ==
  \E i \in 1..Len(segs) : segs[i].angleStart = NaN \/ segs[i].angleEnd = NaN

equalWeights(values) == \A i \in 1..Len(values) : values[i] = values[1]

twice(stops) == reverseStops(reverseStops(stops))

(* C13: for a weight vector with a nonzero sum the widths of the wedges    *)
(* add up to the sweep of the annulus, the full turn less the gap on both  *)
(* sides.                                                                  *)
C13_WidthsFillAnnulus ==
  (rendersChart(state) /\ sum(rawValue(state)) # 0)
    => totalWidth(segments) = annulusSweep

(* C14: a weight vector whose sum is zero renders no wedges: nothing is    *)
(* divided by the zero sum and no angle is NaN.                            *)
C14_ZeroSumNoWedges ==
  (rendersChart(state) /\ sum(rawValue(state)) = 0)
    => segments = <<>> /\ ~hasNaN(segments)

(* C15: when the extracted value is undefined, is not a numeric vector or  *)
(* is an empty vector, the panel renders the "No data available"           *)
(* placeholder and computes no colours and no wedges; a vector with        *)
(* elements renders the chart.                                             *)
C15_EmptyRendersPlaceholder ==
  /\ (\/ state.latestMatchingQueriedData = Undefined
      \/ state.latestMatchingQueriedData.kind # "Float32Array"
      \/ state.latestMatchingQueriedData.elems = <<>>)
       => PieChart(config, state) = Placeholder
  /\ PieChart(config, state) = Placeholder => ~rendersChart(state)

C15_Witness ==
  /\ lastAction.type = "frame"
  /\ state.latestMatchingQueriedData = Float32Array(<<>>)
  /\ PieChart(config, state) = Placeholder

(* C16 as stated: reversing the stops twice gives back the very same       *)
(* stops, colours and locations.                                           *)
C16_Original == twice(selectStops(config)) = selectStops(config)

(* C16: reversing the stops twice keeps the number, the order and the      *)
(* colours of the stops; a location of 0 or of at least one half comes     *)
(* back exactly, so the red-yellow-green and the gradient stops are the    *)
(* very same, while a location below one half may come back as the         *)
(* rounded 1 - (1 - location); a third reversal equals the first.          *)
C16_ReverseTwice ==
  LET stops == selectStops(config)
      back == twice(stops)
  IN /\ Len(back) = Len(stops)
     /\ \A i \in 1..Len(stops) :
          /\ back[i].color = stops[i].color
          /\ (stops[i].location = Zero \/ leq(divide(1, 2), stops[i].location))
               => back[i].location = stops[i].location
          /\ back[i].location = oneMinus(oneMinus(stops[i].location))
     /\ (config.colorMode = "gradient" \/ config.colorMap = "red-yellow-green")
          => back = stops
     /\ reverseStops(back) = reverseStops(stops)

C16_Witness ==
  /\ onRender
  /\ config.colorMode = "colormap"
  /\ config.colorMap = "rainbow"
  /\ twice(selectStops(config))[2].location # selectStops(config)[2].location
  /\ twice(selectStops(config))[4] = selectStops(config)[4]

(* C17: in gradient mode there are exactly two stops, gradient[0] at 0 and *)
(* gradient[1] at 1; reversed they are gradient[1] at 0 and gradient[0]    *)
(* at 1.                                                                   *)
C17_GradientStops ==
  config.colorMode = "gradient"
    => colorStops(config) =
         (IF config.reverse
          THEN <<ColorStop(Color(config.gradient[2]), Zero),
                 ColorStop(Color(config.gradient[1]), One)>>
          ELSE <<ColorStop(Color(config.gradient[1]), Zero),
                 ColorStop(Color(config.gradient[2]), One)>>)

C17_Witness ==
  /\ onRender
  /\ config.colorMode = "gradient"
  /\ config.reverse
  /\ config.gradient = <<"#0000ff", "#ff00ff">>
  /\ colorStops(config)[1].color = Color("#ff00ff")

(* C18: for two or more equal nonzero weights every wedge has the width of *)
(* the annulus sweep divided by the number of weights, and wedge i (from   *)
(* 0) has the turbo colour at i / (N - 1).                                 *)
C18_EqualWeightsEqualWedges ==
  LET values == rawValue(state)
      N == Len(values)
  IN (N >= 2 /\ equalWeights(values) /\ values[1] # 0)
       => \A i \in 1..N :
            /\ width(segments[i]) = over(annulusSweep, Fraction(N, 1))
            /\ segments[i].color = turboColorString(divide(i - 1, N - 1))

(* C19: a single weight is drawn with the colour at position 0, a position *)
(* that is a number: nothing is divided by N - 1 = 0.                      *)
C19_SingleWeightColor ==
  Len(rawValue(state)) = 1
    => /\ segments[1].color.t # NaN
       /\ segments[1].color \in {turboColorString(Zero), colorStops(config)[1].color}

(* C20: the stops of every configuration ascend by location from 0 to 1;   *)
(* a reversed configuration holds at position i the colour of the stop     *)
(* mirrored from the other end, at 1 minus that stop's location.           *)
C20_StopsSortedAndMirrored ==
  LET stops == colorStops(config)
      base == selectStops(config)
      n == Len(base)
  IN /\ Len(stops) = n
     /\ stops[1].location = Zero
     /\ stops[n].location = One
     /\ \A i \in 1..(n - 1) :
          /\ leq(stops[i].location, stops[i + 1].location)
          /\ stops[i].location # stops[i + 1].location
     /\ config.reverse
          => \A i \in 1..n :
               /\ stops[i].color = base[n + 1 - i].color
               /\ stops[i].location = oneMinus(base[n + 1 - i].location)

C20_Witness ==
  /\ onRender
  /\ config.reverse
  /\ config.colorMode = "colormap"
  /\ config.colorMap = "turbo"
  /\ colorStops(config)[2].color = turboColorString(divide(18, 19))

(* C21: a frame dispatched while pathParseError is set extracts nothing:   *)
(* latestMessage becomes the last message of the batch whatever its topic  *)
(* (undefined for an empty batch), error is cleared, and                   *)
(* latestMatchingQueriedData, path, parsedPath and pathParseError stay.    *)
C21_FrameUnderParseErrorRemembersLast ==
  (lastAction.type = "frame" /\ prev.pathParseError # Undefined) =>
    /\ raised = Undefined
    /\ state.latestMessage =
         (IF lastAction.messages = <<>> THEN Undefined
          ELSE lastAction.messages[Len(lastAction.messages)])
    /\ state.error = Undefined
    /\ state.latestMatchingQueriedData = prev.latestMatchingQueriedData
    /\ state.path = prev.path
    /\ state.parsedPath = prev.parsedPath
    /\ state.pathParseError = prev.pathParseError

C21_Witness ==
  /\ lastAction.type = "frame"
  /\ prev.pathParseError # Undefined
  /\ prev.error # Undefined
  /\ Len(lastAction.messages) = 2
  /\ lastAction.messages[1] # lastAction.messages[2]
  /\ lastAction.messages[2].topic # prev.parsedPath.topicName
  /\ state.latestMessage = lastAction.messages[2]
  /\ state.error = Undefined

(* A frame without path parse error whose batch has no message on the      *)
(* bound topic.                                                            *)
unmatchedFrame ==
  /\ lastAction.type = "frame"
  /\ prev.pathParseError = Undefined
  /\ \/ prev.parsedPath = Undefined
     \/ \A i \in 1..Len(lastAction.messages) :
          lastAction.messages[i].topic # prev.parsedPath.topicName

(* C22 as stated: a frame without path parse error whose batch has no      *)
(* message on the bound topic leaves every field of the state, error       *)
(* included, as it was.                                                    *)
C22_Original == unmatchedFrame => state = prev

(* C22: without path parse error the messages on other topics are ignored: *)
(* the frame gives the state that the batch without them gives; a batch    *)
(* with no message on the bound topic leaves path, parsedPath,             *)
(* latestMessage, latestMatchingQueriedData and pathParseError as they     *)
(* were and clears error.                                                  *)
C22_OtherTopicsIgnored ==
  /\ boundFrame =>
       LET onTopic == SelectSeq(lastAction.messages,
                                LAMBDA m : m.topic = prev.parsedPath.topicName)
       IN state = reducer(prev, [type |-> "frame", messages |-> onTopic], FALSE).value
  /\ unmatchedFrame => state = [prev EXCEPT !.error = Undefined]

C22_Witness ==
  /\ unmatchedFrame
  /\ prev.parsedPath # Undefined
  /\ Len(lastAction.messages) >= 1
  /\ prev.error # Undefined
  /\ prev.latestMessage # Undefined
  /\ state.error = Undefined
  /\ state.latestMessage = prev.latestMessage

(* C23: when the extraction from the held message raises during a path     *)
(* dispatch, the exception does not leave the reducer: error is that       *)
(* exception, latestMatchingQueriedData is undefined, and path and         *)
(* parsedPath are those of the new path.                                   *)
C23_PathExtractionFailureStored ==
  (lastAction.type = "path" /\ raised = Error("ExtractionError")) =>
    /\ escaped = Undefined
    /\ state.error = raised
    /\ state.latestMatchingQueriedData = Undefined
    /\ state.path = lastAction.path
    /\ state.parsedPath = parseMessagePath(lastAction.path).value
    /\ state.pathParseError = Undefined
    /\ state.latestMessage = prev.latestMessage

C23_Witness ==
  /\ lastAction.type = "path"
  /\ raised = Error("ExtractionError")
  /\ prev.path # lastAction.path
  /\ prev.parsedPath # state.parsedPath
  /\ prev.latestMatchingQueriedData # Undefined
  /\ state.error = Error("ExtractionError")

(* The gap that leaves the annulus of the clip path out of the full turn.  *)
annulusGap == over(minus(times(Fraction(2, 1), PI), annulusSweep), Fraction(2, 1))

(* The segments tile the sweep that the gap g leaves, in the order of the  *)
(* weights.                                                                *)
tilesWith(g) ==
  LET values == rawValue(state)
      N == Len(values)
      sweep == minus(times(Fraction(2, 1), PI), times(Fraction(2, 1), g))
      start == plus(over(minus(Fraction(0, 1), PI), Fraction(2, 1)), g)
  IN /\ Len(segments) = N
     /\ segments[1].angleStart = start
     /\ \A i \in 2..N : segments[i].angleStart = segments[i - 1].angleEnd
     /\ \A i \in 1..N :
          width(segments[i]) = times(Fraction(values[i], sum(values)), sweep)
     /\ segments[N].angleEnd = plus(start, sweep)

(* C24: for weights with a nonzero sum the segments come in the order of   *)
(* the weights and tile the sweep: the first starts at -pi/2 + g, each     *)
(* next one starts where the one before ends, segment i is                 *)
(* (weight i / sum) of the sweep 2 pi - 2 g wide, and the last ends at     *)
(* 3 pi/2 - g; g is pieChartAngle or the gap of the annulus.               *)
C24_SegmentsTileSweep ==
  (rendersChart(state) /\ sum(rawValue(state)) # 0)
    => (tilesWith(pieChartAngle) \/ tilesWith(annulusGap))

(* C25: the colour of segment i is the colour of the i-th colour stop of   *)
(* the configuration, when there are as many weights as stops.             *)
C25_ColoursFromConfiguredStops ==
  (rendersChart(state) /\ Len(rawValue(state)) = Len(colorStops(config)))
    => \A i \in 1..Len(segments) : segments[i].color = colorStops(config)[i].color

(* The parsed path has a filter or slice with a variable operand. *)
hasVariable(parsedPath) ==
  /\ parsedPath # Undefined
  /\ \E i \in 1..Len(parsedPath.messagePath) :
       parsedPath.messagePath[i].type \in {"filter", "slice"}
         /\ "object" \in {parsedPath.messagePath[i][f] :
                            f \in DOMAIN parsedPath.messagePath[i] \ {"type"}}

(* C27: once the path layout effect has run, path is the last path         *)
(* dispatched on which the parser returned, parsedPath is the parser's     *)
(* result for it, and pathParseError is set exactly when that parsed path  *)
(* has a filter or slice with a variable operand; a frame or a seek        *)
(* changes none of the three.                                              *)
C27_PathFieldsFollowLastPath ==
  /\ onRender =>
       /\ config.path # ParseThrows => state.path = config.path
       /\ state.path # ParseThrows
       /\ state.parsedPath = parseMessagePath(state.path).value
       /\ state.pathParseError # Undefined <=> hasVariable(state.parsedPath)
  /\ lastAction.type \in {"frame", "seek"} =>
       /\ state.path = prev.path
       /\ state.parsedPath = prev.parsedPath
       /\ state.pathParseError = prev.pathParseError

C27_Witness ==
  /\ lastAction.type = "frame"
  /\ Len(lastAction.messages) = 2
  /\ state.path = "/a.data[$n:]"
  /\ state.pathParseError # Undefined
  /\ state.parsedPath.topicName = "/a"
  /\ state.latestMessage # Undefined

(* C28: whenever latestMatchingQueriedData is defined, latestMessage is    *)
(* defined.                                                                *)
C28_ValueHasMessage ==
  state.latestMatchingQueriedData # Undefined => state.latestMessage # Undefined

C28_Witness ==
  /\ lastAction.type = "path"
  /\ prev.latestMessage # Undefined
  /\ prev.latestMatchingQueriedData = Undefined
  /\ state.latestMatchingQueriedData # Undefined
  /\ state.latestMessage = prev.latestMessage

(* C29: whenever latestMatchingQueriedData is defined, the held            *)
(* latestMessage is on the topic of parsedPath.                            *)
C29_ValueFromBoundTopic ==
  state.latestMatchingQueriedData # Undefined =>
    /\ state.latestMessage # Undefined
    /\ state.parsedPath # Undefined
    /\ state.latestMessage.topic = state.parsedPath.topicName

(* C26: while the panel is mounted the host's subscriptions are exactly    *)
(* the topic of parsedPath, none when it has no topic; a commit that       *)
(* changes the topic first calls unsubscribeAll and then subscribes the    *)
(* new topic, any other commit calls nothing; after the teardown nothing   *)
(* is subscribed and onRender is detached.                                 *)
C26_SubscriptionFollowsTopic ==
  /\ ~onRender /\ ~unmounted => subscriptions = {}
  /\ onRender =>
       /\ subscriptions = topicsOf(state)
       /\ lastAction.type = "path" /\ topicsOf(prev) # topicsOf(state) =>
            hostCalls = <<unsubscribeAll>>
                          \o (IF topicsOf(state) = {} THEN <<>>
                              ELSE <<subscribe(topicsOf(state))>>)
       /\ lastAction.type # "path" => hostCalls = <<>>
  /\ unmounted =>
       /\ ~onRender
       /\ subscriptions = {}
       /\ hostCalls = <<unsubscribeAll>>

C26_Witness ==
  /\ onRender
  /\ lastAction.type = "path"
  /\ topicsOf(prev) = {"/a"}
  /\ topicsOf(state) = {"/b"}
  /\ subscriptions = {"/b"}
  /\ hostCalls = <<unsubscribeAll, subscribe({"/b"})>>

====
